---------------------------- MODULE Spec2Model ----------------------------
(***************************************************************************)
(* Two-species diffusion chamber (src/diffusion.py).                       *)
(*                                                                         *)
(* Coordinates are kept in hundredths of a cell: Chamber.update passes     *)
(* velocity = temperature / 100, so a step of one velocity is exactly      *)
(* `temperature` hundredths.  The temperatures used below (0, 100, 150)    *)
(* give velocities that binary floating point represents exactly, so the   *)
(* fixed-point positions are the positions the program computes.           *)
(*                                                                         *)
(* Entropy values are kept as a Shannon part in units of 1e-6 bit plus a   *)
(* count of log2(1 + 1e-9) terms (see Quantity).                           *)
(***************************************************************************)
EXTENDS Integers, Sequences, FiniteSets, TLC

\* ---------------------------------------------------------------- bounds
MaxSize == 2
MaxParticles == 4
MaxHooks == 2
\* a chamber built directly gets probes only with at most this many particles
MaxProbed == 2
MaxCycle == 1

\* ------------------------------------------------------ program constants
\* temperature / 100 (Chamber.update): positions are stored times 100
PosScale == 100

Sizes == 0..MaxSize
Temperatures == {0, 100, 150}
Cycles == 0..MaxCycle
Colors == {"orange", "blue"}
Steps == {-1, 0, 1}

VARIABLES
    driver,        \* "Diffusion" (Diffusion.__init__) or "Chamber" (Chamber built directly)
    width,         \* Chamber.width
    height,        \* Chamber.height
    temperature,   \* Chamber.temperature
    num_particles, \* argument of Chamber.init_particles
    particles,     \* Chamber.particles: sequence of [x, y, color], x and y in hundredths
    hooks,         \* Chamber.hooks: sequence of probe objects
    scope_screen,  \* the display target the probes draw on
    pc,            \* control point of the driver
    i,             \* index of the loop in progress in Chamber.update (1-based)
    cycle,         \* argument of the Chamber.update in progress, -1 outside update
    cand,          \* the cell last drawn by init_particles, <<>> if none
    raised,        \* exception that ended the run, "none" if none
    moved,         \* history: indices of the particles whose move was called by
                   \* the update in progress (or the last one), in call order
    notified       \* history: indices of the hooks whose updated was called by
                   \* the update in progress (or the last one), in call order

vars == <<driver, width, height, temperature, num_particles, particles, hooks,
          scope_screen, pc, i, cycle, cand, raised, moved, notified>>

chamberFields == <<width, height, temperature>>

\* ---------------------------------------------------------------- helpers
\* mutant: the truncation applied to 0.8 * size before the second factor
DiffusionCount_TruncatedEarly(size) == ((8 * size) \div 10) * size

\* int(0.8 * size * size), Diffusion.__init__
DiffusionCount(size) == (4 * size * size) \div 5

\* mutant: rounding to the nearest integer in place of truncation
Trunc_Rounded(v) == (v + PosScale \div 2) \div PosScale

\* int(v) of a coordinate in hundredths: truncation toward zero
Trunc(v) == IF v >= 0 THEN v \div PosScale ELSE 0 - ((0 - v) \div PosScale)

\* mutant: the scan returns after comparing the first particle only
is_position_occupied_FirstOnly(x, y) ==
    /\ Len(particles) >= 1
    /\ particles[1].x = x * PosScale /\ particles[1].y = y * PosScale

\* mutant: "or" in place of "and" in the comparison
is_position_occupied_EitherAxis(x, y) ==
    \E k \in 1..Len(particles) :
        particles[k].x = x * PosScale \/ particles[k].y = y * PosScale

\* Chamber.is_position_occupied(x, y), x and y integer cells
is_position_occupied(x, y) ==
    \E k \in 1..Len(particles) :
        particles[k].x = x * PosScale /\ particles[k].y = y * PosScale

\* 'orange' if x < mid_x else 'blue', with mid_x = width // 2
SpeciesOf(x) == IF x < width \div 2 THEN "orange" ELSE "blue"

\* mutant: the coordinates stored in the wrong order
Particle_Swapped(x, y, color) == [x |-> y * PosScale, y |-> x * PosScale, color |-> color]

\* Particle(x, y, color)
Particle(x, y, color) == [x |-> x * PosScale, y |-> y * PosScale, color |-> color]

\* mutant: an out-of-range proposal clamped to the nearest wall cell
MoveAxis_Clamped(old, d, max, velocity100) ==
    LET new == old + d * velocity100
    IN  IF new < 0 THEN 0
        ELSE IF new >= max * PosScale THEN (max - 1) * PosScale
        ELSE new

\* mutant: the upper wall included in the range (0 <= new <= max)
MoveAxis_Inclusive(old, d, max, velocity100) ==
    LET new == old + d * velocity100
    IN  IF 0 <= new /\ new <= max * PosScale THEN new ELSE old

\* mutant: the step not scaled by the velocity (a whole cell per step)
MoveAxis_Unscaled(old, d, max, velocity100) ==
    LET new == old + d * PosScale
    IN  IF 0 <= new /\ new < max * PosScale THEN new ELSE old

\* one axis of Particle.move: the proposal is kept only if 0 <= new < max
MoveAxis(old, d, max, velocity100) ==
    LET new == old + d * velocity100
    IN  IF 0 <= new /\ new < max * PosScale THEN new ELSE old

\* mutant: the species recomputed from the new x
Move_Recolored(p, dx, dy) ==
    [x |-> MoveAxis(p.x, dx, width, temperature),
     y |-> MoveAxis(p.y, dy, height, temperature),
     color |-> SpeciesOf(Trunc(MoveAxis(p.x, dx, width, temperature)))]

\* mutant: a move into a cell that another particle occupies is refused
Move_AvoidsOccupied(p, dx, dy) ==
    LET q == [x |-> MoveAxis(p.x, dx, width, temperature),
              y |-> MoveAxis(p.y, dy, height, temperature),
              color |-> p.color]
    IN  IF q # p /\ \E k \in 1..Len(particles) :
                       /\ Trunc(particles[k].x) = Trunc(q.x)
                       /\ Trunc(particles[k].y) = Trunc(q.y)
                       /\ particles[k] # p
        THEN p ELSE q

\* Particle.move(max_x, max_y, velocity) with the two random.choice results dx, dy
Move(p, dx, dy) ==
    [x |-> MoveAxis(p.x, dx, width, temperature),
     y |-> MoveAxis(p.y, dy, height, temperature),
     color |-> p.color]

\* ----------------------------------------------------------------- probes
\* log2(k) in units of 1e-6 bit, k in 1..10
Log2Micro(k) ==
    <<0, 1000000, 1584963, 2000000, 2321928, 2584963, 2807355, 3000000,
      3169925, 3321928>>[k]

\* An entropy quantity is [micro |-> m, eps |-> e], the number
\* m * 1e-6 + e * log2(1 + 1e-9) bit: log2(p + 1e-9) = log2(p) + 1e-9 / (p ln 2)
\* to first order, so the epsilon inside the logarithm contributes one
\* log2(1 + 1e-9) = 1.4427e-9 to p * log2(p + 1e-9) whatever p > 0 is.
Quantity(m, e) == [micro |-> m, eps |-> e]

\* a > b for two entropy quantities (a count of epsilons never adds up to 1e-6)
Greater(a, b) == a.micro > b.micro \/ (a.micro = b.micro /\ a.eps > b.eps)

\* a numpy index on an axis of length n: negative indices count from the end
\* (-1 when the index is out of range, which raises IndexError)
NpIndex(idx, n) ==
    IF 0 <= idx /\ idx < n THEN idx
    ELSE IF 0 - n <= idx /\ idx < 0 THEN idx + n
    ELSE 0 - 1

\* the cell density[int(p.x), int(p.y)] addresses
CellOf(p) == <<NpIndex(Trunc(p.x), width), NpIndex(Trunc(p.y), height)>>

\* some particle indexes outside the grid: density[...] += 1 raises IndexError
IndexFails == \E k \in 1..Len(particles) :
                  CellOf(particles[k])[1] < 0 \/ CellOf(particles[k])[2] < 0

Grid == (0..(width - 1)) \X (0..(height - 1))

\* np.zeros((width, height))
Zeros == [c \in Grid |-> 0]

\* mutant: the cell set to 1 instead of incremented
RECURSIVE Binned_Assigned(_, _, _)
Binned_Assigned(color, k, density) ==
    IF k > Len(particles) THEN density
    ELSE Binned_Assigned(color, k + 1,
                IF particles[k].color = color
                THEN [density EXCEPT ![CellOf(particles[k])] = 1]
                ELSE density)

\* the loop "for particle in self.chamber.particles", from particle k on:
\* a particle of species color adds one to its cell of that species' grid
RECURSIVE Binned(_, _, _)
Binned(color, k, density) ==
    IF k > Len(particles) THEN density
    ELSE Binned(color, k + 1,
                IF particles[k].color = color
                THEN [density EXCEPT ![CellOf(particles[k])] = @ + 1]
                ELSE density)

orange_density == Binned("orange", 1, Zeros)
blue_density == Binned("blue", 1, Zeros)

\* density[x, 0] + ... + density[x, n - 1]
RECURSIVE RowSum(_, _, _)
RowSum(density, x, n) ==
    IF n = 0 THEN 0 ELSE RowSum(density, x, n - 1) + density[<<x, n - 1>>]

\* np.sum(density, axis=1): one total per x
Concentration(density) == [x \in 0..(width - 1) |-> RowSum(density, x, height)]

orange_concentration == Concentration(orange_density)
blue_concentration == Concentration(blue_density)

\* mutant: the logarithm taken without the epsilon (zero counts skipped)
ProbLog_NoEpsilon(count, total) ==
    IF count = 0 THEN Quantity(0, 0)
    ELSE Quantity((count * (Log2Micro(count) - Log2Micro(total))) \div total, 0)

\* prob * log2(prob + 1e-9) for prob = count / total; a count of 0 gives
\* 0 * log2(1e-9) = 0
ProbLog(count, total) ==
    IF count = 0 THEN Quantity(0, 0)
    ELSE Quantity((count * (Log2Micro(count) - Log2Micro(total))) \div total, 1)

\* entropy of one cell holding o orange and b blue particles; an empty cell
\* has its total replaced by 1
CellEntropy(o, b) ==
    LET total == IF o + b = 0 THEN 1 ELSE o + b
        po == ProbLog(o, total)
        pb == ProbLog(b, total)
    IN  Quantity(0 - (po.micro + pb.micro), 0 - (po.eps + pb.eps))

\* the per-cell entropy array
entropy == [c \in Grid |-> CellEntropy(orange_density[c], blue_density[c])]

RECURSIVE SumCells(_, _)
SumCells(f, cells) ==
    IF cells = {} THEN Quantity(0, 0)
    ELSE LET c == CHOOSE c \in cells : TRUE
             rest == SumCells(f, cells \ {c})
         IN  Quantity(f[c].micro + rest.micro, f[c].eps + rest.eps)

\* np.sum(entropy)
total_entropy == SumCells(entropy, Grid)

\* ConcentrationDensity(chamber, scope_screen)
NewConcentrationDensity == [kind |-> "ConcentrationDensity"]

\* SystemEntropy(chamber, scope_screen)
NewSystemEntropy ==
    [kind |-> "SystemEntropy", max_entropy |-> Quantity(0, 0), max_entropy_cycle |-> 0]

\* mutant: the maximum replaced on a total that is not below it (>=)
EntropyUpdated_NonStrict(probe, c) ==
    IF ~Greater(probe.max_entropy, total_entropy)
    THEN [probe EXCEPT !.max_entropy = total_entropy, !.max_entropy_cycle = c]
    ELSE probe

\* the running maximum kept by SystemEntropy.updated(c)
EntropyUpdated(probe, c) ==
    IF Greater(total_entropy, probe.max_entropy)
    THEN [probe EXCEPT !.max_entropy = total_entropy, !.max_entropy_cycle = c]
    ELSE probe

\* the display target before anything is drawn.  lines holds the two series
\* last plotted; of the title only its presence is kept ("entropy" once
\* SystemEntropy has set it, "" after a clear): its text repeats the cycle
\* and the probe's fields.
BlankScreen == [lines |-> <<>>, title |-> ""]

\* ------------------------------------------------------------ initial state
\* entry of Chamber.__init__: the fields are set, the lists are empty and
\* init_particles(num_particles) is about to run.  Diffusion.__init__ asks for
\* int(0.8 * size * size) particles, a direct caller for any number.
Init ==
    /\ driver \in {"Diffusion", "Chamber"}
    /\ width \in Sizes
    /\ height = width
    /\ temperature \in Temperatures
    /\ num_particles \in 0..MaxParticles
    /\ driver = "Diffusion" => num_particles = DiffusionCount(width)
    /\ particles = <<>>
    /\ hooks = <<>>
    /\ scope_screen = BlankScreen
    /\ pc = "init_particles"
    /\ i = 0
    /\ cycle = 0 - 1
    /\ cand = <<>>
    /\ raised = "none"
    /\ moved = <<>>
    /\ notified = <<>>

\* ------------------------------------------------------------------ seeding
Seeding == pc = "init_particles" /\ Len(particles) < num_particles

\* random.randint(0, self.width - 1) on an empty range raises ValueError
SeedRaise ==
    /\ Seeding
    /\ width - 1 < 0
    /\ pc' = "raised"
    /\ raised' = "ValueError"
    /\ UNCHANGED <<driver, chamberFields, num_particles, particles, hooks,
                   scope_screen, i, cycle, cand>>
    /\ UNCHANGED <<moved, notified>>

\* a drawn cell that is_position_occupied reports taken: draw again
SeedReject ==
    /\ Seeding
    /\ \E x \in 0..(width - 1), y \in 0..(height - 1) :
        /\ is_position_occupied(x, y)
        /\ cand' = <<x, y>>
    /\ UNCHANGED <<driver, chamberFields, num_particles, particles, hooks,
                   scope_screen, pc, i, cycle, raised>>
    /\ UNCHANGED <<moved, notified>>

\* the cell (x, y) is drawn and is free: the particle is appended with its
\* species
SeedPlaceCell(x, y) ==
    /\ Seeding
    /\ x \in 0..(width - 1) /\ y \in 0..(height - 1)
    /\ ~is_position_occupied(x, y)
    /\ cand' = <<x, y>>
    /\ particles' = Append(particles, Particle(x, y, SpeciesOf(x)))
    /\ UNCHANGED <<driver, chamberFields, num_particles, hooks,
                   scope_screen, pc, i, cycle, raised>>
    /\ UNCHANGED <<moved, notified>>

\* a drawn cell that is free
SeedPlace == \E x \in 0..(MaxSize - 1), y \in 0..(MaxSize - 1) : SeedPlaceCell(x, y)

\* range(num_particles) is exhausted: init_particles and Chamber.__init__ return
InitParticlesReturn ==
    /\ pc = "init_particles"
    /\ Len(particles) >= num_particles
    /\ pc' = "constructed"
    /\ cand' = <<>>
    /\ UNCHANGED <<driver, chamberFields, num_particles, particles, hooks,
                   scope_screen, i, cycle, raised>>
    /\ UNCHANGED <<moved, notified>>

\* --------------------------------------------------------- probe attachment
\* Probe.__init__ -> chamber.add_hook(self).  Diffusion.__init__ attaches a
\* ConcentrationDensity and then a SystemEntropy; a direct caller attaches
\* any probes, in any order, between updates.
AttachConcentrationDensity ==
    /\ pc \in {"constructed", "idle"}
    /\ IF driver = "Diffusion"
       THEN pc = "constructed" /\ Len(hooks) = 0
       ELSE Len(hooks) < MaxHooks /\ num_particles <= MaxProbed
    /\ hooks' = Append(hooks, NewConcentrationDensity)
    /\ UNCHANGED <<driver, chamberFields, num_particles, particles,
                   scope_screen, pc, i, cycle, cand, raised>>
    /\ UNCHANGED <<moved, notified>>

AttachSystemEntropy ==
    /\ pc \in {"constructed", "idle"}
    /\ IF driver = "Diffusion"
       THEN pc = "constructed" /\ Len(hooks) = 1
       ELSE Len(hooks) < MaxHooks /\ num_particles <= MaxProbed
    /\ hooks' = Append(hooks, NewSystemEntropy)
    /\ UNCHANGED <<driver, chamberFields, num_particles, particles,
                   scope_screen, pc, i, cycle, cand, raised>>
    /\ UNCHANGED <<moved, notified>>

\* ------------------------------------------------------------ Chamber.update
\* the control point after the particle loop has handled particles 1..k-1
\* and the hook loop hooks 1..j-1
AfterHook(j) == IF j <= Len(hooks) THEN <<"hooks", j>> ELSE <<"idle", 0>>
\* mutant: the particle loop stops one particle short
AfterMove_SkipsLast(k) == IF k < Len(particles) THEN <<"move", k>> ELSE AfterHook(1)
AfterMove(k) == IF k <= Len(particles) THEN <<"move", k>> ELSE AfterHook(1)

\* the driver calls chamber.update(c)
Update ==
    /\ pc \in {"constructed", "idle"}
    /\ driver = "Diffusion" => Len(hooks) = 2
    /\ \E c \in Cycles :
        /\ pc' = AfterMove(1)[1]
        /\ i' = AfterMove(1)[2]
        /\ cycle' = IF AfterMove(1)[1] = "idle" THEN 0 - 1 ELSE c
    /\ UNCHANGED <<driver, chamberFields, num_particles, particles, hooks,
                   scope_screen, cand, raised>>
    /\ moved' = <<>>
    /\ notified' = <<>>

\* particle.move(self.width, self.height, self.temperature / 100) for particle i
MoveParticle ==
    /\ pc = "move"
    /\ \E dx \in Steps, dy \in Steps :
        particles' = [particles EXCEPT ![i] = Move(@, dx, dy)]
    /\ pc' = AfterMove(i + 1)[1]
    /\ i' = AfterMove(i + 1)[2]
    /\ cycle' = IF AfterMove(i + 1)[1] = "idle" THEN 0 - 1 ELSE cycle
    /\ UNCHANGED <<driver, chamberFields, num_particles, hooks,
                   scope_screen, cand, raised>>
    /\ moved' = Append(moved, i)
    /\ UNCHANGED notified

\* mutant: the probe stores the truncated coordinates back into the particles
ConcentrationDensityUpdated_Truncating ==
    /\ pc = "hooks"
    /\ hooks[i].kind = "ConcentrationDensity"
    /\ scope_screen' =
           [lines |-> <<orange_concentration, blue_concentration>>, title |-> ""]
    /\ particles' = [k \in 1..Len(particles) |->
                        [particles[k] EXCEPT !.x = Trunc(@) * PosScale,
                                             !.y = Trunc(@) * PosScale]]
    /\ pc' = AfterHook(i + 1)[1]
    /\ i' = AfterHook(i + 1)[2]
    /\ cycle' = IF AfterHook(i + 1)[1] = "idle" THEN 0 - 1 ELSE cycle
    /\ notified' = Append(notified, i)
    /\ UNCHANGED <<driver, chamberFields, num_particles, hooks, cand, raised, moved>>

\* ConcentrationDensity.updated(cycle) for hook i: clear the screen and plot
\* the two series (IndexError if a particle indexes outside the grid)
ConcentrationDensityUpdated ==
    /\ pc = "hooks"
    /\ hooks[i].kind = "ConcentrationDensity"
    /\ IF IndexFails
       THEN /\ pc' = "raised"
            /\ raised' = "IndexError"
            /\ UNCHANGED <<scope_screen, i, cycle>>
       ELSE /\ scope_screen' =
                   [lines |-> <<orange_concentration, blue_concentration>>,
                    title |-> ""]
            /\ pc' = AfterHook(i + 1)[1]
            /\ i' = AfterHook(i + 1)[2]
            /\ cycle' = IF AfterHook(i + 1)[1] = "idle" THEN 0 - 1 ELSE cycle
            /\ UNCHANGED raised
    /\ UNCHANGED <<driver, chamberFields, num_particles, particles, hooks, cand>>
    /\ notified' = Append(notified, i)
    /\ UNCHANGED moved

\* SystemEntropy.updated(cycle) for hook i: track the maximum, set the title
\* (IndexError if a particle indexes outside the grid)
SystemEntropyUpdated ==
    /\ pc = "hooks"
    /\ hooks[i].kind = "SystemEntropy"
    /\ IF IndexFails
       THEN /\ pc' = "raised"
            /\ raised' = "IndexError"
            /\ UNCHANGED <<hooks, scope_screen, i, cycle>>
       ELSE /\ hooks' = [hooks EXCEPT ![i] = EntropyUpdated(@, cycle)]
            /\ scope_screen' = [scope_screen EXCEPT !.title = "entropy"]
            /\ pc' = AfterHook(i + 1)[1]
            /\ i' = AfterHook(i + 1)[2]
            /\ cycle' = IF AfterHook(i + 1)[1] = "idle" THEN 0 - 1 ELSE cycle
            /\ UNCHANGED raised
    /\ UNCHANGED <<driver, chamberFields, num_particles, particles, cand>>
    /\ notified' = Append(notified, i)
    /\ UNCHANGED moved

Next ==
    \/ SeedRaise
    \/ SeedReject
    \/ SeedPlace
    \/ InitParticlesReturn
    \/ AttachConcentrationDensity
    \/ AttachSystemEntropy
    \/ Update
    \/ MoveParticle
    \/ ConcentrationDensityUpdated
    \/ SystemEntropyUpdated

Spec == Init /\ [][Next]_vars

\* The draws of random.randint are fair: while the seeding loop runs, a cell
\* that stays free is eventually drawn.  A loop whose range is exhausted
\* returns.
FairSpec ==
    /\ Spec
    /\ WF_vars(InitParticlesReturn)
    /\ \A x \in 0..(MaxSize - 1), y \in 0..(MaxSize - 1) : WF_vars(SeedPlaceCell(x, y))

\* =================================================================== claims
\* the integer cell of a particle
IntCell(p) == <<Trunc(p.x), Trunc(p.y)>>

\* two different particles of the list are in the same integer cell
SomeSharedCell ==
    \E j \in 1..Len(particles), k \in 1..Len(particles) :
        j < k /\ IntCell(particles[j]) = IntCell(particles[k])

\* number of particles of a species
SpeciesCount(color) ==
    Cardinality({k \in 1..Len(particles) : particles[k].color = color})

\* series[0] + ... + series[n - 1]
RECURSIVE SeriesSum(_, _)
SeriesSum(series, n) ==
    IF n = 0 THEN 0 ELSE SeriesSum(series, n - 1) + series[n - 1]

\* the SystemEntropy probes among the hooks
EntropyHooks == {j \in 1..Len(hooks) : hooks[j].kind = "SystemEntropy"}

\* C1: while init_particles runs and when the constructor has returned (no
\* update made yet), no two particles of the chamber are in the same integer
\* cell, whatever particle_count <= width*height was asked for.
C1_NoSharedCellAfterConstruction ==
    (pc \in {"init_particles", "constructed"} /\ num_particles <= width * height)
        => ~SomeSharedCell

\* C1 witness: a chamber of 2x2 cells has been built with three particles
C1_Witness ==
    pc = "constructed" /\ width = 2 /\ num_particles = 3 /\ Len(particles) = 3

\* what Particle.move lets one axis become: the proposal if it lies in
\* [0, max), the old value otherwise
C2_AxisRule(old, new, max) ==
    \E d \in Steps :
        LET proposal == old + d * temperature
        IN  new = IF 0 <= proposal /\ proposal < max * PosScale
                  THEN proposal ELSE old

\* C2: every particle always has 0 <= x < width and 0 <= y < height, and
\* whenever a particle's position changes each axis, independently of the
\* other, takes its proposal if that lies in [0, max) and keeps its old value
\* otherwise.
C2_MoveStaysInRange ==
    /\ [](\A k \in 1..Len(particles) :
            /\ 0 <= particles[k].x /\ particles[k].x < width * PosScale
            /\ 0 <= particles[k].y /\ particles[k].y < height * PosScale)
    /\ [][pc = "move" =>
            \A k \in 1..Len(particles) :
                /\ C2_AxisRule(particles[k].x, particles'[k].x, width)
                /\ C2_AxisRule(particles[k].y, particles'[k].y, height)
                /\ (particles'[k].x # particles[k].x =>
                        0 <= particles'[k].x /\ particles'[k].x < width * PosScale)
                /\ (particles'[k].y # particles[k].y =>
                        0 <= particles'[k].y /\ particles'[k].y < height * PosScale)]_vars

\* C2 witness: after an update at velocity 1.5 a particle sits at x = 1.5,
\* half a cell below the upper wall of a chamber of width 2, where every
\* proposal on that axis but -1.5 is out of range
C2_Witness ==
    /\ pc = "idle" /\ temperature = 150 /\ width = 2
    /\ \E k \in 1..Len(particles) : particles[k].x = 150

\* C3: the two series ConcentrationDensity.updated plots each sum, over x, to
\* the number of particles of that species in the chamber.
C3_SeriesSumToSpeciesCount ==
    scope_screen.lines # <<>> =>
        /\ SeriesSum(scope_screen.lines[1], width) = SpeciesCount("orange")
        /\ SeriesSum(scope_screen.lines[2], width) = SpeciesCount("blue")

\* C3 witness: the series on the screen are those of the current positions,
\* and two particles share a cell
C3_Witness ==
    /\ pc = "idle"
    /\ scope_screen.lines = <<orange_concentration, blue_concentration>>
    /\ SomeSharedCell

\* C4: a SystemEntropy probe starts with max_entropy = 0 and
\* max_entropy_cycle = 0; max_entropy never decreases; the two fields change
\* only in an updated(cycle) whose total entropy is strictly greater than the
\* stored max_entropy, and then become that total and that cycle; an
\* updated(cycle) whose total is equal or below leaves both as they were.
C4_MaxEntropyMonotone ==
    [][/\ \A j \in 1..Len(hooks') :
            (j > Len(hooks) /\ hooks'[j].kind = "SystemEntropy") =>
                /\ hooks'[j].max_entropy = Quantity(0, 0)
                /\ hooks'[j].max_entropy_cycle = 0
       /\ \A j \in EntropyHooks :
            /\ ~Greater(hooks[j].max_entropy, hooks'[j].max_entropy)
            /\ hooks'[j] # hooks[j] =>
                /\ pc = "hooks" /\ i = j
                /\ Greater(total_entropy, hooks[j].max_entropy)
                /\ hooks'[j].max_entropy = total_entropy
                /\ hooks'[j].max_entropy_cycle = cycle
            /\ (pc = "hooks" /\ i = j
                    /\ ~Greater(total_entropy, hooks[j].max_entropy)) =>
                hooks'[j] = hooks[j]]_vars

\* C4 witness: a probe holds a positive maximum set at cycle 1, and the
\* current total entropy equals that maximum (a tick that must not move it)
C4_Witness ==
    \E j \in EntropyHooks :
        /\ pc = "hooks" /\ i = j /\ cycle = 0
        /\ hooks[j].max_entropy_cycle = 1
        /\ Greater(hooks[j].max_entropy, Quantity(0, 0))
        /\ hooks[j].max_entropy = total_entropy

\* C5: the chamber Diffusion builds holds floor(0.8 * width * height)
\* particles from the return of the constructor on, through every update and
\* every probe notification.
C5_ParticleCountFixed ==
    (driver = "Diffusion" /\ pc \notin {"init_particles", "raised"})
        => Len(particles) = (8 * width * height) \div 10

\* C5 witness: Diffusion(2, .) after an update that notified both probes
C5_Witness ==
    /\ driver = "Diffusion" /\ width = 2 /\ pc = "idle"
    /\ Len(particles) = 3
    /\ scope_screen.lines # <<>> /\ scope_screen.title = "entropy"

\* C6: a particle is created orange when its initial x is below width // 2
\* and blue otherwise, and no step changes the species of a particle.
C6_SpeciesFixedByInitialX ==
    /\ [](pc \in {"init_particles", "constructed"} =>
            \A k \in 1..Len(particles) :
                particles[k].color =
                    IF Trunc(particles[k].x) < width \div 2 THEN "orange" ELSE "blue")
    /\ [][\A k \in 1..Len(particles) :
            particles'[k].color = particles[k].color]_vars

\* C6 witness: an orange particle is right of the midline and a blue one
\* left of it
C6_Witness ==
    /\ pc = "idle"
    /\ \E k \in 1..Len(particles) :
        particles[k].color = "orange" /\ Trunc(particles[k].x) >= width \div 2
    /\ \E k \in 1..Len(particles) :
        particles[k].color = "blue" /\ Trunc(particles[k].x) < width \div 2

\* C7: a construction asked for more particles than the chamber has cells
\* fails with CapacityError: it is never found in the seeding loop with every
\* cell already taken.
C7_OverCapacityFailsFast ==
    (width >= 1 /\ num_particles > width * height
        /\ Len(particles) = width * height)
        => (pc = "raised" /\ raised = "CapacityError")

\* C8 as stated: a construction at 100% density never returns a chamber
C8_FullDensityNeverConstructed ==
    ~(width >= 1 /\ num_particles = width * height /\ pc = "constructed")

\* C8 amended: a construction at 100% density raises nothing, and the chamber
\* it returns has exactly one particle in every cell.
C8_FullDensityPacked ==
    (width >= 1 /\ num_particles = width * height) =>
        /\ raised = "none"
        /\ pc = "constructed" =>
            \A c \in Grid :
                Cardinality({k \in 1..Len(particles) : IntCell(particles[k]) = c}) = 1

\* C8 witness: a fully packed chamber of 2x2 cells has been returned
C8_Witness ==
    pc = "constructed" /\ width = 2 /\ num_particles = 4 /\ Len(particles) = 4

\* C9: with a non-positive size, a non-positive temperature or a particle
\* count of zero the constructor returns no chamber: it raises
\* ConfigurationError.
C9_InvalidConfigurationRejected ==
    (width <= 0 \/ temperature <= 0 \/ num_particles = 0) =>
        /\ pc \notin {"constructed", "idle", "move", "hooks"}
        /\ raised \in {"none", "ConfigurationError"}

\* C10: at temperature 0 no step after seeding changes any particle, and the
\* series on the screen, once plotted, are the same after every tick.
C10_ZeroTemperatureFreezes ==
    [][(temperature = 0 /\ pc # "init_particles") =>
            /\ particles' = particles
            /\ scope_screen.lines # <<>> =>
                    scope_screen'.lines = scope_screen.lines]_vars

\* C10 witness: at temperature 0, a ConcentrationDensity probe is about to
\* plot again over series already on the screen
C10_Witness ==
    /\ temperature = 0 /\ Len(particles) >= 2
    /\ pc = "hooks" /\ hooks[i].kind = "ConcentrationDensity"
    /\ scope_screen.lines # <<>>

\* the sequence <<1, ..., n>>
Upto(n) == [k \in 1..n |-> k]

\* C11: while the particle loop of an update runs no probe has been notified;
\* when a probe is notified, move has been called on every particle, once and
\* in list order, and the probes before it in registration order, and only
\* those, have been notified; when the update returns every registered probe
\* has been notified once, in registration order; Diffusion registers
\* ConcentrationDensity before SystemEntropy.
C11_MovesBeforeProbesInOrder ==
    /\ [](pc = "move" => (notified = <<>> /\ moved = Upto(i - 1)))
    /\ [](pc = "hooks" =>
            (moved = Upto(Len(particles)) /\ notified = Upto(i - 1)))
    /\ []((driver = "Diffusion" /\ Len(hooks) = 2) =>
            (hooks[1].kind = "ConcentrationDensity"
                /\ hooks[2].kind = "SystemEntropy"))
    /\ [][(pc \in {"move", "hooks"} /\ pc' = "idle") =>
            (moved' = Upto(Len(particles)) /\ notified' = Upto(Len(hooks)))]_vars

\* C11 witness: in the Diffusion composition SystemEntropy is about to be
\* notified, after the three particles have moved and ConcentrationDensity
\* has been notified
C11_Witness ==
    /\ driver = "Diffusion" /\ pc = "hooks" /\ i = 2
    /\ hooks[2].kind = "SystemEntropy"
    /\ moved = <<1, 2, 3>> /\ notified = <<1>>
    /\ scope_screen.lines = <<orange_concentration, blue_concentration>>

\* every particle of the chamber has the same species (and there is one)
OneSpecies ==
    /\ Len(particles) >= 1
    /\ \A k \in 1..Len(particles) : particles[k].color = particles[1].color

\* the cell holds at least one particle
Occupied(c) == \E k \in 1..Len(particles) : IntCell(particles[k]) = c

\* C12 as stated: when SystemEntropy.updated runs on a chamber whose
\* particles are all of one species, every cell of the grid contributes
\* -log2(1 + 1e-9).
C12_EveryCellSlightlyNegative ==
    (pc = "hooks" /\ hooks[i].kind = "SystemEntropy" /\ OneSpecies) =>
        \A c \in Grid : entropy[c] = Quantity(0, 0 - 1)

\* C12 amended: when SystemEntropy.updated runs on a chamber whose particles
\* are all of one species, every cell that holds a particle contributes
\* -log2(1 + 1e-9) and every empty cell contributes exactly 0.
C12_OccupiedCellsSlightlyNegative ==
    (pc = "hooks" /\ hooks[i].kind = "SystemEntropy" /\ OneSpecies) =>
        \A c \in Grid :
            entropy[c] = IF Occupied(c) THEN Quantity(0, 0 - 1) ELSE Quantity(0, 0)

\* C12 witness: SystemEntropy is notified on a chamber of 2x2 cells whose two
\* particles, both of one species, sit in one cell
C12_Witness ==
    /\ pc = "hooks" /\ hooks[i].kind = "SystemEntropy" /\ OneSpecies
    /\ width = 2 /\ Len(particles) = 2 /\ SomeSharedCell

\* C13: when an update reaches its probes or returns, move has been called
\* exactly once on every particle; a call of move changes only the particle
\* it is called on, each coordinate staying or changing by exactly
\* +temperature/100 or -temperature/100; and no other step changes a particle.
C13_OneMovePerParticlePerTick ==
    /\ [](pc = "hooks" => moved = Upto(Len(particles)))
    /\ [][(pc \in {"move", "hooks"} /\ pc' = "idle") =>
            moved' = Upto(Len(particles))]_vars
    /\ [][pc # "init_particles" =>
            \A k \in 1..Len(particles) :
                IF pc = "move" /\ k = i
                THEN /\ particles'[k].x - particles[k].x
                            \in {0 - temperature, 0, temperature}
                     /\ particles'[k].y - particles[k].y
                            \in {0 - temperature, 0, temperature}
                     /\ moved' = Append(moved, k)
                ELSE particles'[k] = particles[k]]_vars

\* C13 witness: an update at velocity 1.5 has returned after one move of each
\* of three particles, one of which stands at x = 1.5
C13_Witness ==
    /\ pc = "idle" /\ temperature = 150 /\ moved = <<1, 2, 3>>
    /\ \E k \in 1..Len(particles) : particles[k].x = 150 /\ particles[k].y = 150

\* C14: a probe notification leaves the chamber as it was: the particle list
\* with every position and species, the dimensions, the temperature, and the
\* hook list (same probes in the same order); of the probes only the notified
\* SystemEntropy may change, in its max_entropy and max_entropy_cycle.
C14_ProbesOnlyRead ==
    [][pc = "hooks" =>
            /\ particles' = particles
            /\ width' = width /\ height' = height /\ temperature' = temperature
            /\ Len(hooks') = Len(hooks)
            /\ \A j \in 1..Len(hooks) :
                /\ hooks'[j].kind = hooks[j].kind
                /\ (j # i \/ hooks[j].kind = "ConcentrationDensity") =>
                        hooks'[j] = hooks[j]]_vars

\* C14 witness: both probes of the Diffusion composition have been notified
\* over particles at fractional positions; the plot, the title and the
\* stored maximum have changed
C14_Witness ==
    /\ driver = "Diffusion" /\ pc = "idle" /\ notified = <<1, 2>>
    /\ scope_screen.lines # <<>> /\ scope_screen.title = "entropy"
    /\ Greater(hooks[2].max_entropy, Quantity(0, 0))
    /\ \E k \in 1..Len(particles) : particles[k].x = 150

\* number of particles of a species in a cell
CountIn(color, c) ==
    Cardinality({k \in 1..Len(particles) :
                    particles[k].color = color /\ IntCell(particles[k]) = c})

\* C15: move applies every in-range proposal whether or not the target cell
\* is occupied (each of the nine draws has its successor), and the density
\* grids the probes build count every particle of a cell, so that a cell
\* shared by several particles holds their number.
C15_OverlapAllowedAndCounted ==
    /\ pc = "move" =>
        \A dx \in Steps, dy \in Steps :
            ENABLED (/\ MoveParticle
                     /\ particles'[i].x =
                            IF 0 <= particles[i].x + dx * temperature
                                /\ particles[i].x + dx * temperature < width * PosScale
                            THEN particles[i].x + dx * temperature
                            ELSE particles[i].x
                     /\ particles'[i].y =
                            IF 0 <= particles[i].y + dy * temperature
                                /\ particles[i].y + dy * temperature < height * PosScale
                            THEN particles[i].y + dy * temperature
                            ELSE particles[i].y)
    /\ \A c \in Grid :
        /\ orange_density[c] = CountIn("orange", c)
        /\ blue_density[c] = CountIn("blue", c)

\* C15 witness: from the collision-free placement of Diffusion(2, .) the
\* probes are notified over a cell that holds two particles, which the
\* grids count as two
C15_Witness ==
    /\ driver = "Diffusion" /\ pc = "hooks" /\ i = 1
    /\ SomeSharedCell
    /\ \E c \in Grid : orange_density[c] + blue_density[c] >= 2

\* C16: under fair draws a construction asked for at most width*height
\* particles leaves the seeding loop; one asked for more than the width*height
\* cells of a chamber (width >= 1) never leaves it.
C16_SeedingTerminatesIffFits ==
    /\ [](num_particles <= width * height => <>(pc # "init_particles"))
    /\ []((width >= 1 /\ num_particles > width * height) => pc = "init_particles")

\* C16 witness: the seeding of a full 2x2 chamber has placed three particles
\* and has just drawn an occupied cell; its last free cell is still to be drawn
C16_Witness ==
    /\ pc = "init_particles" /\ width = 2 /\ num_particles = 4
    /\ Len(particles) = 3
    /\ cand # <<>> /\ is_position_occupied(cand[1], cand[2])
    /\ IntCell(particles[3]) # cand

\* C17: the cell a probe bins a particle into, (int(x), int(y)) by truncation,
\* always lies in 0..width-1 by 0..height-1, so the index is used as it is
\* (no wrap from a negative index) and no probe raises IndexError.
C17_BinIndexInRange ==
    /\ \A k \in 1..Len(particles) :
        /\ 0 <= Trunc(particles[k].x) /\ Trunc(particles[k].x) <= width - 1
        /\ 0 <= Trunc(particles[k].y) /\ Trunc(particles[k].y) <= height - 1
        /\ CellOf(particles[k]) = <<Trunc(particles[k].x), Trunc(particles[k].y)>>
    /\ ~IndexFails
    /\ raised # "IndexError"

\* C17 witness: a probe is notified while a particle stands at (1.5, 1.5),
\* half a cell below both upper walls of a chamber of 2x2 cells
C17_Witness ==
    /\ pc = "hooks" /\ width = 2
    /\ \E k \in 1..Len(particles) : particles[k].x = 150 /\ particles[k].y = 150

=============================================================================
